---------------------------- MODULE Spec2Model ----------------------------
(***************************************************************************)
(* SidebarContainer of ng-sidebar (src/src/sidebar-container.component.ts) *)
(* as a state machine: the tracked panels, the backdrop arbitration, the   *)
(* subscription lifecycle, the deferred recompute and the content styles.  *)
(***************************************************************************)
EXTENDS Integers, Sequences, FiniteSets, TLC

VARIABLES
    panel,                        \* the Sidebar objects: id -> fields (owned by the panels)
    sidebars,                     \* this._sidebars: tracked panel ids, insertion order
    showBackdrop,                 \* @Input() showBackdrop
    allowSidebarBackdropControl,  \* @Input() allowSidebarBackdropControl
    isBrowser,                    \* this._isBrowser
    inited,                       \* ngAfterContentInit has run
    destroyed,                    \* number of ngOnDestroy calls so far
    onRegister,                   \* the registry holds the container's callback
    listeners,                    \* panel -> signal -> container listeners attached
    closed,                       \* panel -> signal -> emitter closed by unsubscribe()
    pending,                      \* setTimeout callbacks scheduled and not yet run
    computedStyle,                \* what [ngStyle] last received from _getContentStyles()
    log                           \* the container calls made during the last step, in order

vars == <<panel, sidebars, showBackdrop, allowSidebarBackdropControl, isBrowser,
          inited, destroyed, onRegister, listeners, closed, pending,
          computedStyle, log>>

---------------------------------------------------------------------------
(* Bounds *)

NumPanels == 2
MaxTracked == 2
MaxPending == 2
MaxDestroy == 2
NumMovers == 1

Panels == 1..NumPanels

---------------------------------------------------------------------------
(* Panel values *)

Positions == {"left", "right", "top", "bottom"}
Modes == {"over", "push", "slide"}
Signals == {"onOpenStart", "onOpened", "onCloseStart", "onClosed",
            "onModeChange", "onPositionChange", "_onRerender"}

\* The pixel sizes the panels report (width, height, docked size): each panel
\* has its own, which it keeps.
SizeProfiles ==
    << [width |-> 200, height |-> 120, dockedSize |-> 56],
       [width |-> 80,  height |-> 300, dockedSize |-> 90],
       [width |-> 140, height |-> 60,  dockedSize |-> 30] >>

SizeOf(p) == SizeProfiles[((p - 1) % Len(SizeProfiles)) + 1]

Null == "null"

Panel(pos, mode, opened, dock, size, backdrop, closeOnClick) ==
    [ position |-> pos, mode |-> mode, opened |-> opened, dock |-> dock,
      dockedSize |-> size.dockedSize, width |-> size.width, height |-> size.height,
      showBackdrop |-> backdrop, closeOnClickBackdrop |-> closeOnClick ]

\* Sidebar's defaults: closed, left, over, no dock, backdrop off.
DefaultPanel(p) == Panel("left", "over", FALSE, FALSE, SizeOf(p), FALSE, FALSE)

\* The states a panel may be in when the registry announces it.
NewPanels(p) ==
    { Panel("left", "over", o, FALSE, SizeOf(p), b, k) :
        o \in BOOLEAN, b \in BOOLEAN, k \in BOOLEAN }

\* Every layout configuration of one panel (backdrop options at their defaults).
Layouts == [position : Positions, mode : Modes, opened : BOOLEAN, dock : BOOLEAN]

LayoutPanel(p, l) == Panel(l.position, l.mode, l.opened, l.dock, SizeOf(p), FALSE, FALSE)

---------------------------------------------------------------------------
(* Sidebar getters read by the container *)

_isModeOver(sb) == sb.mode = "over"
_isModePush(sb) == sb.mode = "push"
_isModeSlide(sb) == sb.mode = "slide"
_isDocked(sb) == sb.dock /\ ~sb.opened
_dockedSize(sb) == sb.dockedSize
_width(sb) == sb.width
_height(sb) == sb.height

---------------------------------------------------------------------------
(* _getContentStyles *)

\* Mutant: the accumulators add up instead of keeping the largest.
MathMaxAdds(a, b) == a + b

MathMax(a, b) == IF a >= b THEN a ELSE b

isLeftOrRight(sb) == sb.position = "left" \/ sb.position = "right"
isLeftOrTop(sb) == sb.position = "left" \/ sb.position = "top"

transformDir(sb) == IF isLeftOrRight(sb) THEN "X" ELSE "Y"

\* Mutant: the sign test is inverted.
transformAmtInverted(sb) ==
    (IF isLeftOrTop(sb) THEN "-" ELSE "")
        \o ToString(IF isLeftOrRight(sb) THEN _width(sb) ELSE _height(sb))

transformAmt(sb) ==
    (IF isLeftOrTop(sb) THEN "" ELSE "-")
        \o ToString(IF isLeftOrRight(sb) THEN _width(sb) ELSE _height(sb))

transformOf(sb) == "translate" \o transformDir(sb) \o "(" \o transformAmt(sb) \o "px)"

offsetDim(sb) == "calc(100% - " \o ToString(_dockedSize(sb)) \o "px"

createsSpace(sb) == (_isModePush(sb) /\ sb.opened) \/ sb.dock

\* Mutant: the docked branch tests only _isDocked.
paddingAmtDockedOnly(sb) ==
    IF _isModeSlide(sb) /\ sb.opened
    THEN 0
    ELSE IF _isDocked(sb)
         THEN _dockedSize(sb)
         ELSE IF isLeftOrRight(sb) THEN _width(sb) ELSE _height(sb)

\* Mutant: an open slide panel is given a padding amount like any other.
paddingAmtSlideToo(sb) ==
    IF _isDocked(sb) \/ (_isModeOver(sb) /\ sb.dock)
    THEN _dockedSize(sb)
    ELSE IF isLeftOrRight(sb) THEN _width(sb) ELSE _height(sb)

paddingAmt(sb) ==
    IF _isModeSlide(sb) /\ sb.opened
    THEN 0
    ELSE IF _isDocked(sb) \/ (_isModeOver(sb) /\ sb.dock)
         THEN _dockedSize(sb)
         ELSE IF isLeftOrRight(sb) THEN _width(sb) ELSE _height(sb)

StartStyles ==
    [ left |-> 0, right |-> 0, top |-> 0, bottom |-> 0,
      transformStyle |-> Null, heightStyle |-> Null, widthStyle |-> Null ]

\* Mutant: the first open slide panel keeps the transform.
slideStepFirstWins(acc, sb) ==
    IF _isModeSlide(sb) /\ sb.opened /\ acc.transformStyle = Null
    THEN [acc EXCEPT !.transformStyle = transformOf(sb)]
    ELSE acc

\* The slide branch of the forEach body.
slideStep(acc, sb) ==
    IF _isModeSlide(sb) /\ sb.opened
    THEN [acc EXCEPT !.transformStyle = transformOf(sb)]
    ELSE acc

\* The size override of a docked open slide panel.
overrideStep(acc, sb) ==
    IF _isModeSlide(sb) /\ sb.opened
    THEN IF isLeftOrRight(sb)
         THEN [acc EXCEPT !.widthStyle = offsetDim(sb)]
         ELSE [acc EXCEPT !.heightStyle = offsetDim(sb)]
    ELSE acc

\* The switch on sidebar.position.
paddingStep(acc, sb) ==
    CASE sb.position = "left"   -> [acc EXCEPT !.left = MathMax(acc.left, paddingAmt(sb))]
      [] sb.position = "right"  -> [acc EXCEPT !.right = MathMax(acc.right, paddingAmt(sb))]
      [] sb.position = "top"    -> [acc EXCEPT !.top = MathMax(acc.top, paddingAmt(sb))]
      [] sb.position = "bottom" -> [acc EXCEPT !.bottom = MathMax(acc.bottom, paddingAmt(sb))]
      [] OTHER -> acc

\* One iteration of the forEach over this._sidebars. The registry announces
\* Sidebar objects only, so the `if (!sidebar) return` guard never fires.
visitSidebar(acc, sb) ==
    LET a1 == slideStep(acc, sb)
    IN  IF createsSpace(sb) THEN paddingStep(overrideStep(a1, sb), sb) ELSE a1

RECURSIVE forEachSidebar(_, _, _)
forEachSidebar(acc, sbs, pn) ==
    IF sbs = <<>> THEN acc
    ELSE forEachSidebar(visitSidebar(acc, pn[Head(sbs)]), Tail(sbs), pn)

paddingString(top, right, bottom, left) ==
    ToString(top) \o "px " \o ToString(right) \o "px "
        \o ToString(bottom) \o "px " \o ToString(left) \o "px"

_getContentStyles(sbs, pn) ==
    LET acc == forEachSidebar(StartStyles, sbs, pn)
    IN  [ padding |-> paddingString(acc.top, acc.right, acc.bottom, acc.left),
          webkitTransform |-> acc.transformStyle,
          transform |-> acc.transformStyle,
          height |-> acc.heightStyle,
          width |-> acc.widthStyle ]

\* Nothing rendered yet.
NoStyle ==
    [ padding |-> Null, webkitTransform |-> Null, transform |-> Null,
      height |-> Null, width |-> Null ]

---------------------------------------------------------------------------
(* The effects of one handler run, threaded through the calls it makes *)

E(ev, arg) == [ev |-> ev, arg |-> arg]

BoolArg(b) == IF b THEN 1 ELSE 0

\* The state a task starts from: nothing logged, the view not marked.
Ctx ==
    [ pn |-> panel, showBackdrop |-> showBackdrop, pending |-> pending,
      dirty |-> FALSE, log |-> <<>> ]

\* An input binding changed or an event of the template fired: the OnPush view
\* is checked at the end of the task.
Marked == [Ctx EXCEPT !.dirty = TRUE]

Logged(c, ev, arg) == [c EXCEPT !.log = Append(@, E(ev, arg))]

\* The task ends: its effects become the next state, and change detection
\* checks the view if it was marked: [ngStyle]="_getContentStyles()".
Apply(c) ==
    /\ panel' = c.pn
    /\ showBackdrop' = c.showBackdrop
    /\ pending' = c.pending
    /\ pending' <= MaxPending
    /\ IF c.dirty /\ destroyed = 0
       THEN /\ log' = Append(c.log, E("_getContentStyles", 0))
            /\ computedStyle' = _getContentStyles(sidebars, c.pn)
       ELSE /\ log' = c.log
            /\ computedStyle' = computedStyle

---------------------------------------------------------------------------
(* _markForCheck, _onToggle *)

_markForCheck(c) == [Logged(c, "_markForCheck", 0) EXCEPT !.dirty = TRUE]

\* Mutant: any open panel counts, whether or not it asks for the backdrop.
hasOpenAny(sbs, pn) ==
    \E i \in 1..Len(sbs) : pn[sbs[i]].opened

\* this._sidebars.some(sidebar => sidebar.opened && sidebar.showBackdrop)
hasOpen(sbs, pn) ==
    \E i \in 1..Len(sbs) : pn[sbs[i]].opened /\ pn[sbs[i]].showBackdrop

\* Mutant: the backdrop is arbitrated whatever allowSidebarBackdropControl says.
_onToggleAlways(c) ==
    LET c0 == Logged(c, "_onToggle", 0)
        h  == hasOpen(sidebars, c.pn)
        c1 == Logged([c0 EXCEPT !.showBackdrop = h], "showBackdropChange", BoolArg(h))
    IN  [Logged(c1, "setTimeout", 0) EXCEPT !.pending = @ + 1]

\* Mutant: the recompute is scheduled only when the backdrop is arbitrated.
_onToggleSchedulesIfAllowed(c) ==
    LET c0 == Logged(c, "_onToggle", 0)
        h  == hasOpen(sidebars, c.pn)
    IN  IF allowSidebarBackdropControl
        THEN [Logged(Logged([c0 EXCEPT !.showBackdrop = h], "showBackdropChange", BoolArg(h)),
                     "setTimeout", 0) EXCEPT !.pending = @ + 1]
        ELSE c0

_onToggle(c) ==
    LET c0 == Logged(c, "_onToggle", 0)
        h  == hasOpen(sidebars, c.pn)
        c1 == IF allowSidebarBackdropControl
              THEN Logged([c0 EXCEPT !.showBackdrop = h], "showBackdropChange", BoolArg(h))
              ELSE c0
    IN  [Logged(c1, "setTimeout", 0) EXCEPT !.pending = @ + 1]

---------------------------------------------------------------------------
(* _subscribe, _unsubscribe and the panels' emitters *)

ToggleSignals == {"onOpenStart", "onCloseStart"}

\* Mutant: every signal re-arbitrates the backdrop.
listenerAlwaysToggles(sig, c) == _onToggle(c)

\* The callback _subscribe attaches to a signal.
listener(sig, c) == IF sig \in ToggleSignals THEN _onToggle(c) ELSE _markForCheck(c)

RECURSIVE runListeners(_, _, _)
runListeners(n, sig, c) ==
    IF n = 0 THEN c ELSE runListeners(n - 1, sig, listener(sig, c))

\* A panel emits a signal: every listener attached to it runs, in order.
\* unsubscribe() closes an EventEmitter for good: it drops its observers and
\* neither takes new ones nor delivers to any.
emit(c, p, sig) ==
    IF closed[p][sig] THEN c ELSE runListeners(listeners[p][sig], sig, c)

\* subscribe() on each of the seven emitters; a closed emitter takes no observer.
_subscribe(ls, p) ==
    [ls EXCEPT ![p] = [sig \in Signals |->
        IF closed[p][sig] THEN ls[p][sig] ELSE ls[p][sig] + 1]]

Tracked == {sidebars[i] : i \in 1..Len(sidebars)}

\* unsubscribe() on each of the seven emitters of every tracked panel.
unsubscribedSignals(p) == IF p \in Tracked THEN Signals ELSE {}

_unsubscribeListeners ==
    [p \in Panels |-> [sig \in Signals |->
        IF sig \in unsubscribedSignals(p) THEN 0 ELSE listeners[p][sig]]]

_unsubscribeClosed ==
    [p \in Panels |-> [sig \in Signals |->
        IF sig \in unsubscribedSignals(p) THEN TRUE ELSE closed[p][sig]]]

---------------------------------------------------------------------------
(* The panel's own operations (Sidebar) *)

\* Sidebar.open(): the panel opens and fires open-start.
open(c, p) == emit([c EXCEPT !.pn[p].opened = TRUE], p, "onOpenStart")

\* Sidebar.close(): the panel closes and fires close-start.
close(c, p) == emit([c EXCEPT !.pn[p].opened = FALSE], p, "onCloseStart")

---------------------------------------------------------------------------
(* _onBackdropClicked *)

\* Mutant: closeOnClickBackdrop is not consulted.
closesOnClickAnyOpen(sb) == sb.opened /\ sb.showBackdrop

closesOnClick(sb) == sb.opened /\ sb.showBackdrop /\ sb.closeOnClickBackdrop

\* Mutant: the click writes the panel's opened field itself, without close().
RECURSIVE clickEachWritesOpened(_, _)
clickEachWritesOpened(c, rest) ==
    IF rest = <<>> THEN c
    ELSE LET p == Head(rest)
         IN  clickEachWritesOpened(IF closesOnClick(c.pn[p])
                                   THEN [c EXCEPT !.pn[p].opened = FALSE]
                                   ELSE c,
                                   Tail(rest))

RECURSIVE clickEach(_, _)
clickEach(c, rest) ==
    IF rest = <<>> THEN c
    ELSE LET p == Head(rest)
         IN  clickEach(IF closesOnClick(c.pn[p])
                       THEN close(Logged(c, "close", p), p)
                       ELSE c,
                       Tail(rest))

_onBackdropClicked(c) == clickEach(c, sidebars)

---------------------------------------------------------------------------
(* Initial states *)

NoListeners == [p \in Panels |-> [sig \in Signals |-> 0]]
NoneClosed == [p \in Panels |-> [sig \in Signals |-> FALSE]]

\* After construction: inputs at their defaults, nothing tracked, panels at
\* their defaults.
Init ==
    /\ panel = [p \in Panels |-> DefaultPanel(p)]
    /\ sidebars = <<>>
    /\ showBackdrop = FALSE
    /\ allowSidebarBackdropControl = TRUE
    /\ isBrowser \in BOOLEAN
    /\ inited = FALSE
    /\ destroyed = 0
    /\ onRegister = FALSE
    /\ listeners = NoListeners
    /\ closed = NoneClosed
    /\ pending = 0
    /\ computedStyle = NoStyle
    /\ log = <<>>

---------------------------------------------------------------------------
(* Container lifecycle *)

\* What a task leaves alone unless it says otherwise.
Frame ==
    UNCHANGED <<sidebars, allowSidebarBackdropControl, isBrowser, inited, destroyed,
                onRegister, listeners, closed>>

\* Mutant: the hook installs the registry callback without running _onToggle.
ngAfterContentInitSkipsToggle ==
    /\ ~inited
    /\ inited' = TRUE
    /\ Apply(Marked)
    /\ onRegister' = isBrowser
    /\ UNCHANGED <<sidebars, allowSidebarBackdropControl, isBrowser, destroyed,
                   listeners, closed>>

\* The view's first check follows the hook.
ngAfterContentInit ==
    /\ ~inited
    /\ inited' = TRUE
    /\ IF isBrowser
       THEN /\ Apply(_onToggle(Marked))
            /\ onRegister' = TRUE
       ELSE /\ Apply(Marked)
            /\ UNCHANGED onRegister
    /\ UNCHANGED <<sidebars, allowSidebarBackdropControl, isBrowser, destroyed,
                   listeners, closed>>

\* The parent binds a new value to [showBackdrop]; ngOnChanges reports it.
ngOnChangesShowBackdrop(v) ==
    /\ destroyed = 0
    /\ v # showBackdrop
    /\ LET c0 == [Marked EXCEPT !.showBackdrop = v]
       IN  Apply(IF isBrowser THEN Logged(c0, "showBackdropChange", BoolArg(v)) ELSE c0)
    /\ Frame

\* The parent binds a new value to [allowSidebarBackdropControl]; ngOnChanges
\* sees no change of showBackdrop.
ngOnChangesAllow(v) ==
    /\ destroyed = 0
    /\ v # allowSidebarBackdropControl
    /\ allowSidebarBackdropControl' = v
    /\ Apply(Marked)
    /\ UNCHANGED <<sidebars, isBrowser, inited, destroyed, onRegister, listeners, closed>>

\* Mutant: the teardown cancels the timers still pending.
ngOnDestroyCancelsTimers ==
    /\ inited
    /\ destroyed < MaxDestroy
    /\ destroyed' = destroyed + 1
    /\ IF isBrowser
       THEN /\ listeners' = _unsubscribeListeners
            /\ closed' = _unsubscribeClosed
            /\ Apply(Logged([Ctx EXCEPT !.pending = 0], "_unsubscribe", 0))
       ELSE /\ UNCHANGED <<listeners, closed>>
            /\ Apply(Ctx)
    /\ UNCHANGED <<sidebars, allowSidebarBackdropControl, isBrowser, inited, onRegister>>

ngOnDestroy ==
    /\ inited
    /\ destroyed < MaxDestroy
    /\ destroyed' = destroyed + 1
    /\ IF isBrowser
       THEN /\ listeners' = _unsubscribeListeners
            /\ closed' = _unsubscribeClosed
            /\ Apply(Logged(Ctx, "_unsubscribe", 0))
       ELSE /\ UNCHANGED <<listeners, closed>>
            /\ Apply(Ctx)
    /\ UNCHANGED <<sidebars, allowSidebarBackdropControl, isBrowser, inited, onRegister>>

---------------------------------------------------------------------------
(* The registry *)

\* The registry announces panel p, in the state sb it is in, to the callback
\* given to onRegister. A panel already announced is announced as it is.
Register(p, sb) ==
    /\ onRegister
    /\ Len(sidebars) < MaxTracked
    /\ IF p \in Tracked THEN sb = panel[p] ELSE sb \in NewPanels(p)
    /\ sidebars' = Append(sidebars, p)
    /\ listeners' = _subscribe(listeners, p)
    /\ Apply(Logged([Ctx EXCEPT !.pn[p] = sb], "_subscribe", p))
    /\ UNCHANGED <<allowSidebarBackdropControl, isBrowser, inited, destroyed,
                   onRegister, closed>>

---------------------------------------------------------------------------
(* The panels *)

\* Only the panels announced to the container are followed.
PanelOpen(p) ==
    /\ p \in Tracked
    /\ ~panel[p].opened
    /\ Apply(open(Ctx, p))
    /\ Frame

PanelClose(p) ==
    /\ p \in Tracked
    /\ panel[p].opened
    /\ Apply(close(Ctx, p))
    /\ Frame

\* The open animation ends.
PanelOpened(p) ==
    /\ p \in Tracked
    /\ panel[p].opened
    /\ Apply(emit(Ctx, p, "onOpened"))
    /\ Frame

\* The close animation ends.
PanelClosed(p) ==
    /\ p \in Tracked
    /\ ~panel[p].opened
    /\ Apply(emit(Ctx, p, "onClosed"))
    /\ Frame

PanelModeChange(p, m) ==
    /\ p \in Tracked
    /\ m # panel[p].mode
    /\ Apply(emit([Ctx EXCEPT !.pn[p].mode = m], p, "onModeChange"))
    /\ Frame

PanelPositionChange(p, pos) ==
    /\ p \in Tracked
    /\ pos # panel[p].position
    /\ Apply(emit([Ctx EXCEPT !.pn[p].position = pos], p, "onPositionChange"))
    /\ Frame

\* The panel asks for a re-render.
PanelRerender(p) ==
    /\ p \in Tracked
    /\ Apply(emit(Ctx, p, "_onRerender"))
    /\ Frame

\* The panel's backdrop options change; no signal is fired for them.
PanelBackdropOptions(p, b, k) ==
    /\ p \in Tracked
    /\ <<b, k>> # <<panel[p].showBackdrop, panel[p].closeOnClickBackdrop>>
    /\ Apply([Ctx EXCEPT !.pn[p].showBackdrop = b, !.pn[p].closeOnClickBackdrop = k])
    /\ Frame

---------------------------------------------------------------------------
(* Events of the container's view *)

BackdropClicked ==
    /\ destroyed = 0
    /\ Apply(_onBackdropClicked(Marked))
    /\ Frame

\* A callback given to setTimeout by _onToggle runs, in a task of its own.
Timeout ==
    /\ pending > 0
    /\ Apply(_markForCheck(Logged([Ctx EXCEPT !.pending = @ - 1], "timer", 0)))
    /\ Frame

---------------------------------------------------------------------------
(* Specifications *)

\* In Spec the first NumMovers panels change mode and position, between these
\* values; SpecLayout covers every layout of every panel.
Movers == 1..NumMovers
SpecModes == {"over", "push"}
SpecPositions == {"left", "top"}

Next ==
    \/ ngAfterContentInit
    \/ \E v \in BOOLEAN : ngOnChangesShowBackdrop(v)
    \/ \E v \in BOOLEAN : ngOnChangesAllow(v)
    \/ ngOnDestroy
    \/ \E p \in Panels : \E sb \in NewPanels(p) \cup {panel[p]} : Register(p, sb)
    \/ \E p \in Panels : PanelOpen(p)
    \/ \E p \in Panels : PanelClose(p)
    \/ \E p \in Panels : PanelOpened(p)
    \/ \E p \in Panels : PanelClosed(p)
    \/ \E p \in Movers, m \in SpecModes : PanelModeChange(p, m)
    \/ \E p \in Movers, pos \in SpecPositions : PanelPositionChange(p, pos)
    \/ \E p \in Panels : PanelRerender(p)
    \/ \E p \in Panels, b \in BOOLEAN, k \in BOOLEAN : PanelBackdropOptions(p, b, k)
    \/ BackdropClicked
    \/ Timeout

Spec == Init /\ [][Next]_vars

\* The container with its inputs left at their defaults: everything but the
\* parent's bindings.
NextDefaults ==
    \/ ngAfterContentInit
    \/ ngOnDestroy
    \/ \E p \in Panels : \E sb \in NewPanels(p) \cup {panel[p]} : Register(p, sb)
    \/ \E p \in Panels : PanelOpen(p)
    \/ \E p \in Panels : PanelClose(p)
    \/ \E p \in Panels : PanelOpened(p)
    \/ \E p \in Panels : PanelClosed(p)
    \/ \E p \in Movers, m \in SpecModes : PanelModeChange(p, m)
    \/ \E p \in Movers, pos \in SpecPositions : PanelPositionChange(p, pos)
    \/ \E p \in Panels : PanelRerender(p)
    \/ \E p \in Panels, b \in BOOLEAN, k \in BOOLEAN : PanelBackdropOptions(p, b, k)
    \/ BackdropClicked
    \/ Timeout

SpecDefaults == Init /\ [][NextDefaults]_vars

\* The layout calculator on every layout of the tracked panels: an active
\* container tracks panels 1..k, each in any layout, and a panel's re-render
\* signal has the view checked.
InitLayout ==
    /\ \E k \in 0..MaxTracked :
         /\ k <= NumPanels
         /\ sidebars = [i \in 1..k |-> i]
         /\ \E f \in [1..k -> Layouts] :
              panel = [p \in Panels |->
                         IF p <= k THEN LayoutPanel(p, f[p]) ELSE DefaultPanel(p)]
         /\ listeners = [p \in Panels |-> [sig \in Signals |-> IF p <= k THEN 1 ELSE 0]]
    /\ showBackdrop = FALSE
    /\ allowSidebarBackdropControl = TRUE
    /\ isBrowser = TRUE
    /\ inited = TRUE
    /\ destroyed = 0
    /\ onRegister = TRUE
    /\ closed = NoneClosed
    /\ pending = 0
    /\ computedStyle = _getContentStyles(<<>>, panel)
    /\ log = <<>>

NextLayout == \E p \in Panels : PanelRerender(p)

SpecLayout == InitLayout /\ [][NextLayout]_vars

---------------------------------------------------------------------------
(* Reading a state *)

LogsIn(l, ev) == {i \in 1..Len(l) : l[i].ev = ev}

Logs(ev) == LogsIn(log, ev)

\* The last step checked the view: computedStyle is what _getContentStyles
\* returns for the panels as they are.
Rendered == Logs("_getContentStyles") # {}

TrackedAt(side) == {p \in Tracked : panel[p].position = side}

SetMax(S) == CHOOSE x \in S : \A y \in S : y <= x

SlideOpen(sb) == sb.mode = "slide" /\ sb.opened

Extent(sb) == IF sb.position \in {"left", "right"} THEN sb.width ELSE sb.height

\* I2: the panels that reserve space.
Contributes(sb) == (sb.mode = "push" /\ sb.opened) \/ sb.dock

\* I3: what a contributing panel reserves.
Reserved(sb) ==
    IF SlideOpen(sb) THEN 0
    ELSE IF (sb.dock /\ ~sb.opened) \/ (sb.mode = "over" /\ sb.dock)
         THEN sb.dockedSize
         ELSE Extent(sb)

---------------------------------------------------------------------------
(* C1-C5: the layout calculator *)

MaxContribution(side) ==
    SetMax({paddingAmt(panel[p]) : p \in {q \in TrackedAt(side) : Contributes(panel[q])}}
           \cup {0})

\* C1: the padding of each side is the largest amount reserved by a panel of
\* that side that contributes ((push and opened) or dock), never their sum,
\* and 0 when no panel of that side contributes.
C1_PaddingIsMax ==
    Rendered =>
        computedStyle.padding =
            paddingString(MaxContribution("top"), MaxContribution("right"),
                          MaxContribution("bottom"), MaxContribution("left"))

\* Two open push panels on the left, 200 and 80 wide: left padding 200.
C1_Witness ==
    /\ Rendered
    /\ \E p, q \in Tracked :
         /\ panel[p].mode = "push" /\ panel[p].opened /\ panel[p].position = "left"
         /\ panel[q].mode = "push" /\ panel[q].opened /\ panel[q].position = "left"
         /\ ~panel[p].dock /\ ~panel[q].dock
         /\ panel[p].width = 200 /\ panel[q].width = 80
    /\ computedStyle.padding = "0px 0px 0px 200px"

\* The padding when panel p alone reserves amount v on its side.
PaddingAlone(p, v) ==
    LET side == panel[p].position
        at(s) == IF s = side THEN v ELSE MaxContribution(s)
    IN  paddingString(at("top"), at("right"), at("bottom"), at("left"))

Alone(p) ==
    \A q \in TrackedAt(panel[p].position) : q # p => ~createsSpace(panel[q])

\* C2: a contributing panel that is not open in slide mode feeds dockedSize
\* into its side when it is docked or (over and dock), else its width (left,
\* right) or height (top, bottom); an open push panel with dock reserves its
\* full extent, an open over panel with dock reserves dockedSize.
C2_ReservedAmount ==
    \A p \in Tracked :
        LET sb == panel[p]
        IN  (createsSpace(sb) /\ ~SlideOpen(sb)) =>
              /\ paddingAmt(sb) = Reserved(sb)
              /\ (sb.mode = "push" /\ sb.opened /\ sb.dock) => paddingAmt(sb) = Extent(sb)
              /\ (sb.mode = "over" /\ sb.opened /\ sb.dock) => paddingAmt(sb) = sb.dockedSize
              /\ (Rendered /\ Alone(p)) =>
                    computedStyle.padding = PaddingAlone(p, Reserved(sb))

\* An open over panel with dock, on top, alone: top padding is its dockedSize.
C2_Witness ==
    /\ Rendered
    /\ \E p \in Tracked :
         /\ panel[p].mode = "over" /\ panel[p].opened /\ panel[p].dock
         /\ panel[p].position = "top" /\ panel[p].dockedSize = 90
         /\ Alone(p)
    /\ \E q \in Tracked :
         /\ panel[q].mode = "push" /\ panel[q].opened /\ panel[q].dock
         /\ panel[q].position = "left" /\ panel[q].width = 200
    /\ computedStyle.padding = "90px 0px 0px 200px"

RECURSIVE WithoutSlideOpen(_)
WithoutSlideOpen(sbs) ==
    IF sbs = <<>> THEN <<>>
    ELSE IF SlideOpen(panel[Head(sbs)])
         THEN WithoutSlideOpen(Tail(sbs))
         ELSE <<Head(sbs)>> \o WithoutSlideOpen(Tail(sbs))

\* C3: an open slide panel adds nothing to the padding, docked or not; a
\* single open slide panel on the left, w wide, not docked, gives
\* translateX(<w>px), no padding and no width or height override.
C3_SlideAddsNoPadding ==
    Rendered =>
        /\ computedStyle.padding = _getContentStyles(WithoutSlideOpen(sidebars), panel).padding
        /\ \A p \in Tracked :
             ( /\ sidebars = <<p>>
               /\ SlideOpen(panel[p]) /\ panel[p].position = "left" /\ ~panel[p].dock )
             => /\ computedStyle.transform = "translateX(" \o ToString(panel[p].width) \o "px)"
                /\ computedStyle.padding = "0px 0px 0px 0px"
                /\ computedStyle.width = Null
                /\ computedStyle.height = Null

\* A single open slide panel on the left, docked: it still adds no padding.
C3_Witness ==
    /\ Rendered
    /\ \E p \in Tracked :
         /\ sidebars = <<p>>
         /\ SlideOpen(panel[p]) /\ panel[p].dock
         /\ panel[p].position = "left" /\ panel[p].width = 200
    /\ computedStyle.transform = "translateX(200px)"
    /\ computedStyle.padding = "0px 0px 0px 0px"

OpenSlides == {p \in Tracked : SlideOpen(panel[p])}

Axis(sb) == IF sb.position \in {"left", "right"} THEN "X" ELSE "Y"

\* The transform with the sign the claim gives: negative for left and top.
TransformAsClaimed(sb) ==
    "translate" \o Axis(sb) \o "("
        \o (IF sb.position \in {"right", "bottom"} THEN "" ELSE "-")
        \o ToString(Extent(sb)) \o "px)"

\* The transform with the sign the code gives: negative for right and bottom.
TransformAsAmended(sb) ==
    "translate" \o Axis(sb) \o "("
        \o (IF sb.position \in {"right", "bottom"} THEN "-" ELSE "")
        \o ToString(Extent(sb)) \o "px)"

\* C4 as stated: the transform of an open slide panel has axis X for left and
\* right, Y for top and bottom, magnitude width or height, and a sign that is
\* positive for right and bottom, negative for left and top.
C4_TransformAsClaimed ==
    (Rendered /\ OpenSlides # {}) =>
        computedStyle.transform \in {TransformAsClaimed(panel[p]) : p \in OpenSlides}

\* C4 amended: the same, with the sign positive for left and top and negative
\* for right and bottom.
C4_TransformAmended ==
    (Rendered /\ OpenSlides # {}) =>
        computedStyle.transform \in {TransformAsAmended(panel[p]) : p \in OpenSlides}

\* An open slide panel at the bottom, 300 high: translateY(-300px).
C4_Witness ==
    /\ Rendered
    /\ \E p \in Tracked :
         /\ OpenSlides = {p}
         /\ panel[p].position = "bottom" /\ panel[p].height = 300
    /\ computedStyle.transform = "translateY(-300px)"

DockedSlides(horizontal) ==
    {p \in OpenSlides :
        panel[p].dock /\ (panel[p].position \in {"left", "right"}) = horizontal}

CalcAsClaimed(sb) == "calc(100% - " \o ToString(sb.dockedSize) \o "px)"

\* C5: an open slide panel with dock gives the override calc(100% - <dockedSize>px),
\* parentheses balanced, in width (left, right) or height (top, bottom); width
\* and height are null when no such panel is on the axis.
C5_SizeOverride ==
    Rendered =>
        /\ IF DockedSlides(TRUE) = {}
           THEN computedStyle.width = Null
           ELSE computedStyle.width \in {CalcAsClaimed(panel[p]) : p \in DockedSlides(TRUE)}
        /\ IF DockedSlides(FALSE) = {}
           THEN computedStyle.height = Null
           ELSE computedStyle.height \in {CalcAsClaimed(panel[p]) : p \in DockedSlides(FALSE)}

---------------------------------------------------------------------------
(* C6-C8: the backdrop arbitration *)

\* Some tracked panel is open and asks for the backdrop.
AnyOpenBackdrop == \E p \in Tracked : panel[p].opened /\ panel[p].showBackdrop

\* C6: in every state, if allowSidebarBackdropControl then showBackdrop holds
\* iff some tracked panel is open with showBackdrop.
C6_BackdropFollowsPanels ==
    allowSidebarBackdropControl => (showBackdrop <=> AnyOpenBackdrop)

\* Panel p was open when the call logged at index i was made: it is open now,
\* or the backdrop click closed it later in the same step.
OpenAt(i, p) ==
    panel[p].opened \/ \E j \in Logs("close") : j > i /\ log[j].arg = p

AnyOpenBackdropAt(i) == \E p \in Tracked : OpenAt(i, p) /\ panel[p].showBackdrop

\* C7: with allowSidebarBackdropControl, every run of _onToggle emits exactly
\* one showBackdropChange, carrying whether some tracked panel was open with
\* showBackdrop when it ran, and leaves showBackdrop at that value.
C7_ToggleArbitrates ==
    (allowSidebarBackdropControl /\ Logs("_onToggle") # {}) =>
        /\ \A i \in Logs("_onToggle") :
             /\ i + 1 <= Len(log)
             /\ log[i + 1] = E("showBackdropChange", BoolArg(AnyOpenBackdropAt(i)))
        /\ Cardinality(Logs("showBackdropChange")) = Cardinality(Logs("_onToggle"))
        /\ showBackdrop = AnyOpenBackdrop

\* P4: one panel closed, one open with showBackdrop: the toggle shows the
\* backdrop and emits true.
C7_Witness ==
    /\ allowSidebarBackdropControl
    /\ log = <<E("_onToggle", 0), E("showBackdropChange", 1), E("setTimeout", 0)>>
    /\ \E p, q \in Tracked :
         /\ ~panel[p].opened
         /\ panel[q].opened /\ panel[q].showBackdrop
    /\ showBackdrop

\* C8: while allowSidebarBackdropControl is false, only the parent's binding
\* changes showBackdrop: no panel signal, registration or backdrop click
\* does, and _onToggle emits no showBackdropChange.
C8_NoControlNoChange ==
    [][ ~allowSidebarBackdropControl =>
          \/ \E v \in BOOLEAN : ngOnChangesShowBackdrop(v)
          \/ /\ showBackdrop' = showBackdrop
             /\ LogsIn(log', "showBackdropChange") = {} ]_vars

\* The backdrop was set by the parent and stays, though _onToggle just ran
\* with no tracked panel open.
C8_Witness ==
    /\ ~allowSidebarBackdropControl
    /\ showBackdrop
    /\ Tracked # {}
    /\ ~AnyOpenBackdrop
    /\ log = <<E("_onToggle", 0), E("setTimeout", 0)>>

---------------------------------------------------------------------------
(* C9: the backdrop click *)

ClosedByClick(sb) == sb.opened /\ sb.showBackdrop /\ sb.closeOnClickBackdrop

\* The panels a click closes, in insertion order, each once.
RECURSIVE ClickCloses(_, _)
ClickCloses(rest, seen) ==
    IF rest = <<>> THEN <<>>
    ELSE IF Head(rest) \notin seen /\ ClosedByClick(panel[Head(rest)])
         THEN <<Head(rest)>> \o ClickCloses(Tail(rest), seen \cup {Head(rest)})
         ELSE ClickCloses(Tail(rest), seen)

\* The panels close() was called on during the step that logged l, in order.
RECURSIVE CloseCalls(_)
CloseCalls(l) ==
    IF l = <<>> THEN <<>>
    ELSE IF Head(l).ev = "close"
         THEN <<Head(l).arg>> \o CloseCalls(Tail(l))
         ELSE CloseCalls(Tail(l))

\* C9: one backdrop click calls close() once, in insertion order, on every
\* tracked panel that is open with showBackdrop and closeOnClickBackdrop, and
\* on no other; the other panels stay as they are.
C9_ClickClosesSelected ==
    [][ BackdropClicked =>
          /\ CloseCalls(log') = ClickCloses(sidebars, {})
          /\ \A p \in Panels :
               panel'[p] = IF p \in Tracked /\ ClosedByClick(panel[p])
                           THEN [panel[p] EXCEPT !.opened = FALSE]
                           ELSE panel[p] ]_vars

\* A click closed one panel and left open another that shows the backdrop
\* without closeOnClickBackdrop.
C9_Witness ==
    /\ Logs("close") # {}
    /\ \E p, q \in Tracked :
         /\ p # q
         /\ \E i \in Logs("close") : log[i].arg = p
         /\ ~panel[p].opened
         /\ panel[q].opened /\ panel[q].showBackdrop /\ ~panel[q].closeOnClickBackdrop
    /\ showBackdrop

---------------------------------------------------------------------------
(* C10: teardown *)

PanelSignal ==
    \E p \in Panels :
        \/ PanelOpen(p) \/ PanelClose(p) \/ PanelOpened(p) \/ PanelClosed(p)
        \/ PanelRerender(p)
        \/ \E m \in SpecModes : PanelModeChange(p, m)
        \/ \E pos \in SpecPositions : PanelPositionChange(p, pos)

\* C10: after ngOnDestroy no panel signal runs _onToggle or _markForCheck,
\* changes showBackdrop or emits showBackdropChange, also for panels the
\* registry announces after the teardown.
C10_NoListenerAfterTeardown ==
    [][ (destroyed > 0 /\ PanelSignal) =>
          /\ LogsIn(log', "_onToggle") = {}
          /\ LogsIn(log', "_markForCheck") = {}
          /\ LogsIn(log', "showBackdropChange") = {}
          /\ showBackdrop' = showBackdrop ]_vars

---------------------------------------------------------------------------
(* C11: without a rendering surface *)

\* The container calls a step may make when only the styles are read.
OnlyStyleReads == \A i \in 1..Len(log) : log[i].ev = "_getContentStyles"

\* C11: when _isBrowser is false, whatever the lifecycle calls, registry
\* notifications, backdrop clicks and style reads, no panel is tracked, no
\* listener is subscribed, no recompute is scheduled, no showBackdropChange is
\* emitted and no style is computed: the view never receives a computed style.
C11_NoOpWithoutSurface ==
    ~isBrowser =>
        /\ sidebars = <<>>
        /\ listeners = NoListeners
        /\ pending = 0
        /\ Logs("showBackdropChange") = {}
        /\ Logs("_getContentStyles") = {}
        /\ computedStyle = NoStyle

---------------------------------------------------------------------------
(* C12-C13: batching and registration *)

\* C12: the _onToggle calls made within one callback, however many, produce
\* exactly one deferred recompute between them: one task schedules one timer.
C12_OneRecomputePerBatch ==
    Logs("_onToggle") # {} => Cardinality(Logs("setTimeout")) = 1

\* A recompute was scheduled or made by the step that logged l.
RecomputeScheduled(l) ==
    \/ LogsIn(l, "setTimeout") # {}
    \/ LogsIn(l, "_markForCheck") # {}
    \/ LogsIn(l, "_getContentStyles") # {}

\* C13: a registration delivered to an active container appends the panel to
\* the tracked sequence, attaches a listener to each of its seven signals and
\* schedules a recompute at once.
C13_RegistrationEffects ==
    [][ \A p \in Panels : \A sb \in NewPanels(p) \cup {panel[p]} :
          (destroyed = 0 /\ Register(p, sb)) =>
              /\ sidebars' = Append(sidebars, p)
              /\ \A sig \in Signals : listeners'[p][sig] = listeners[p][sig] + 1
              /\ RecomputeScheduled(log') ]_vars

---------------------------------------------------------------------------
(* C14: one transform *)

\* The open slide panel that comes last in insertion order.
LastOpenSlide ==
    sidebars[SetMax({i \in 1..Len(sidebars) : SlideOpen(panel[sidebars[i]])})]

\* C14: the transform is null iff no tracked panel is open in slide mode;
\* otherwise it is the transform of the last such panel in insertion order,
\* earlier ones being overwritten; transform and webkitTransform are equal.
C14_LastSlideWins ==
    Rendered =>
        /\ computedStyle.webkitTransform = computedStyle.transform
        /\ (computedStyle.transform = Null) <=> (OpenSlides = {})
        /\ OpenSlides # {} =>
             computedStyle.transform = TransformAsAmended(panel[LastOpenSlide])

\* Two open slide panels, the first on the left, the second on top and 300
\* high: the second's transform is the one in force.
C14_Witness ==
    /\ Rendered
    /\ sidebars = <<1, 2>>
    /\ SlideOpen(panel[1]) /\ panel[1].position = "left"
    /\ SlideOpen(panel[2]) /\ panel[2].position = "top" /\ panel[2].height = 300
    /\ computedStyle.transform = "translateY(300px)"
    /\ computedStyle.webkitTransform = "translateY(300px)"

---------------------------------------------------------------------------
(* C15-C18: the signals and the deferred recompute *)

\* How many container listeners hear signal sig of panel p.
Heard(p, sig) == IF closed[p][sig] THEN 0 ELSE listeners[p][sig]

Count(l, ev) == Cardinality(LogsIn(l, ev))

\* What a signal that only asks for a recompute does: each listener marks the
\* view, which is checked when the task ends; the backdrop is left alone.
OnlyRecompute(p, sig) ==
    /\ Count(log', "_markForCheck") = Heard(p, sig)
    /\ Count(log', "_onToggle") = 0
    /\ Count(log', "showBackdropChange") = 0
    /\ Count(log', "setTimeout") = 0
    /\ showBackdrop' = showBackdrop
    /\ pending' = pending
    /\ (Heard(p, sig) > 0 /\ destroyed = 0) =>
          computedStyle' = _getContentStyles(sidebars, panel')

\* What open-start and close-start do: each listener runs _onToggle.
Toggles(p, sig) ==
    /\ Count(log', "_onToggle") = Heard(p, sig)
    /\ Count(log', "setTimeout") = Heard(p, sig)
    /\ Count(log', "_markForCheck") = 0
    /\ (allowSidebarBackdropControl /\ Heard(p, sig) > 0) =>
          /\ Count(log', "showBackdropChange") = Heard(p, sig)
          /\ showBackdrop' = hasOpen(sidebars, panel')

\* What a step did to the panels, looked at before the signal that came with
\* it: panel p opened or closed, changed mode, changed position, or no panel
\* changed at all.
OpenedFlips(p) == panel'[p].opened # panel[p].opened
ModeMoves(p) == panel'[p].mode # panel[p].mode
PositionMoves(p) == panel'[p].position # panel[p].position
PanelsRest == UNCHANGED <<panel, sidebars, listeners, closed, inited, destroyed>>

\* C15: of the seven panel signals only open-start and close-start run
\* _onToggle; open-complete, close-complete, mode-change, position-change and
\* re-render only have the layout recomputed, leave showBackdrop as it is and
\* emit no showBackdropChange.
C15_WhichSignalsToggle ==
    [][ \A p \in Panels :
          /\ OpenedFlips(p) =>
                /\ PanelOpen(p) => Toggles(p, "onOpenStart")
                /\ PanelClose(p) => Toggles(p, "onCloseStart")
          /\ PanelsRest =>
                /\ PanelOpened(p) => OnlyRecompute(p, "onOpened")
                /\ PanelClosed(p) => OnlyRecompute(p, "onClosed")
                /\ PanelRerender(p) => OnlyRecompute(p, "_onRerender")
          /\ ModeMoves(p) =>
                ((\E m \in SpecModes : PanelModeChange(p, m)) =>
                    OnlyRecompute(p, "onModeChange"))
          /\ PositionMoves(p) =>
                ((\E pos \in SpecPositions : PanelPositionChange(p, pos)) =>
                    OnlyRecompute(p, "onPositionChange")) ]_vars

\* A signal other than open-start and close-start was heard: the view was
\* marked and checked, and the backdrop was not arbitrated, though a tracked
\* panel is open with showBackdrop.
C15_Witness ==
    /\ log = <<E("_markForCheck", 0), E("_getContentStyles", 0)>>
    /\ allowSidebarBackdropControl
    /\ AnyOpenBackdrop
    /\ ~showBackdrop

\* C16: every run of _onToggle applies the backdrop value and emits
\* showBackdropChange at once (when allowSidebarBackdropControl), before any
\* layout recompute; it schedules its recompute whatever
\* allowSidebarBackdropControl says, and that recompute does not run in the
\* task that scheduled it.
C16_EmitThenDeferredRecompute ==
    [][ LET toggles == LogsIn(log', "_onToggle")
            emits == LogsIn(log', "showBackdropChange")
        IN  toggles # {} =>
              /\ \A i \in toggles :
                   LET j == IF allowSidebarBackdropControl THEN i + 2 ELSE i + 1
                   IN  /\ j <= Len(log')
                       /\ log'[j].ev = "setTimeout"
                       /\ allowSidebarBackdropControl => log'[i + 1].ev = "showBackdropChange"
              /\ allowSidebarBackdropControl =>
                   showBackdrop' = (log'[SetMax(emits)].arg = 1)
              /\ \A i \in emits : \A j \in LogsIn(log', "_getContentStyles") : i < j
              /\ pending' = pending + Cardinality(toggles)
              /\ LogsIn(log', "timer") = {}
              /\ LogsIn(log', "_markForCheck") = {} ]_vars

\* A panel opened while allowSidebarBackdropControl is false: nothing was
\* emitted, the recompute is scheduled and has not run, and the layout on
\* screen is still the one from before the panel opened.
C16_Witness ==
    /\ ~allowSidebarBackdropControl
    /\ log = <<E("_onToggle", 0), E("setTimeout", 0)>>
    /\ pending = 2
    /\ \E p \in Tracked : panel[p].opened /\ panel[p].mode = "push"
    /\ computedStyle # _getContentStyles(sidebars, panel)

\* The event loop runs every timer callback that is due.
Fairness == WF_vars(Timeout)

SpecFair == SpecDefaults /\ Fairness

\* C17: a recompute scheduled by _onToggle is never cancelled, not even by
\* the teardown: the timers pending change only by those a step schedules
\* and by the one a timer task runs; while a timer is pending a timer task
\* eventually runs; and the recompute it asks for is made from the panels as
\* they are when it runs.
C17_ScheduledRecomputeRuns ==
    /\ [][ /\ pending' = pending + Count(log', "setTimeout") - Count(log', "timer")
           /\ Count(log', "timer") <= 1
           /\ Count(log', "timer") = 1 =>
                /\ Count(log', "_markForCheck") = 1
                /\ destroyed = 0 => computedStyle' = _getContentStyles(sidebars', panel') ]_vars
    /\ (pending > 0) ~> (Logs("timer") # {})

\* The container was torn down with a timer pending, and the timer ran all
\* the same: its callback called _markForCheck.
C17_Witness ==
    /\ destroyed > 0
    /\ log = <<E("timer", 0), E("_markForCheck", 0)>>
    /\ pending = 0

\* The value the showBackdropChange emitted last in the step that logged l.
LastEmitted(l) == l[SetMax(LogsIn(l, "showBackdropChange"))].arg

\* C18 as stated: with a rendering surface ngAfterContentInit emits exactly
\* one showBackdropChange, carrying the arbitrated value, before any panel
\* is registered, whether allowSidebarBackdropControl is true or false.
C18_InitEmitsOnce ==
    [][ (ngAfterContentInit /\ isBrowser) =>
          /\ sidebars = <<>>
          /\ Count(log', "showBackdropChange") = 1
          /\ LastEmitted(log') = BoolArg(hasOpen(sidebars, panel')) ]_vars

\* C18 amended: ngAfterContentInit emits exactly one showBackdropChange,
\* carrying the arbitrated value, when allowSidebarBackdropControl is true,
\* and none, leaving showBackdrop as the parent set it, when it is false;
\* either way before any panel is registered.
C18_InitEmitsIfAllowed ==
    [][ (ngAfterContentInit /\ isBrowser) =>
          /\ sidebars = <<>>
          /\ IF allowSidebarBackdropControl
             THEN /\ Count(log', "showBackdropChange") = 1
                  /\ LastEmitted(log') = BoolArg(hasOpen(sidebars, panel'))
                  /\ showBackdrop' = hasOpen(sidebars, panel')
             ELSE /\ Count(log', "showBackdropChange") = 0
                  /\ showBackdrop' = showBackdrop ]_vars

\* The container was initialised with allowSidebarBackdropControl false and
\* showBackdrop bound to true: _onToggle ran, emitted nothing and left the
\* backdrop shown.
C18_Witness ==
    /\ inited /\ isBrowser
    /\ ~allowSidebarBackdropControl
    /\ showBackdrop
    /\ sidebars = <<>>
    /\ log = <<E("_onToggle", 0), E("setTimeout", 0), E("_getContentStyles", 0)>>

---------------------------------------------------------------------------
(* C19-C20: the tracked set and the panels' fields *)

\* C19: whatever the registry announces, the same panel again included, the
\* tracked sequence holds no panel twice and no panel signal has more than
\* one listener of the container, so one firing runs the handler once.
C19_NoDuplicateTracking ==
    /\ Cardinality(Tracked) = Len(sidebars)
    /\ \A p \in Panels : \A sig \in Signals : listeners[p][sig] <= 1

\* close() was called on panel p during the step that logged l.
CloseCalled(l, p) == \E i \in LogsIn(l, "close") : l[i].arg = p

\* C20: the container writes no field of a panel. A step that changes a
\* panel is the panel's own operation, changing the field of that operation
\* and no other while the container's listeners run; or the registry handing
\* over a panel in the state it is in; or a backdrop click, and then each
\* panel changed was closed by its close(). A step in which the container
\* only reads the styles changes neither the panels nor the container's
\* tracked set, listeners and timers, nor showBackdrop (the parent's binding
\* aside).
C20_ContainerWritesNoPanel ==
    [][ /\ panel' # panel =>
             \/ /\ \A q \in Panels :
                     panel'[q] # panel[q] =>
                         /\ panel'[q] = [panel[q] EXCEPT !.opened = FALSE]
                         /\ CloseCalled(log', q)
                /\ BackdropClicked
             \/ \E p \in Panels :
                   /\ panel'[p] # panel[p]
                   /\ \/ /\ panel' = [panel EXCEPT ![p].opened = TRUE]
                         /\ PanelOpen(p)
                      \/ /\ panel' = [panel EXCEPT ![p].opened = FALSE]
                         /\ PanelClose(p)
                      \/ /\ panel' = [panel EXCEPT ![p].mode = panel'[p].mode]
                         /\ PanelModeChange(p, panel'[p].mode)
                      \/ /\ panel' = [panel EXCEPT ![p].position = panel'[p].position]
                         /\ PanelPositionChange(p, panel'[p].position)
                      \/ /\ panel' = [panel EXCEPT
                                        ![p].showBackdrop = panel'[p].showBackdrop,
                                        ![p].closeOnClickBackdrop =
                                            panel'[p].closeOnClickBackdrop]
                         /\ PanelBackdropOptions(p, panel'[p].showBackdrop,
                                                 panel'[p].closeOnClickBackdrop)
                      \/ /\ panel' = [panel EXCEPT ![p] = panel'[p]]
                         /\ panel'[p] \in NewPanels(p)
                         /\ Register(p, panel'[p])
        /\ (log' # <<>> /\ OnlyStyleReads') =>
             /\ UNCHANGED <<panel, sidebars, listeners, closed, pending>>
             /\ \/ showBackdrop' = showBackdrop
                \/ \E v \in BOOLEAN : ngOnChangesShowBackdrop(v) ]_vars

\* The one tracked panel was open with showBackdrop and closeOnClickBackdrop;
\* the backdrop click called its close(), and only opened changed.
C20_Witness ==
    /\ \E p \in Panels :
         /\ sidebars = <<p>>
         /\ CloseCalled(log, p)
         /\ panel[p] = [DefaultPanel(p) EXCEPT !.showBackdrop = TRUE,
                                               !.closeOnClickBackdrop = TRUE]
    /\ Logs("_getContentStyles") # {}

===========================================================================
